---- MODULE Spec2Model ----
(***************************************************************************)
(* A model of fxd.minilexer (src/src/fxd/minilexer.py): the token-graph    *)
(* resolver Parser.iter_tokens, the line cache with its snapshot stack,    *)
(* the built-in matchers and the loop of Parser.run_parser.                *)
(*                                                                         *)
(* A Python str is a sequence of one-character strings; the parser object  *)
(* is the record `parser`, whose fields carry the names of the attributes  *)
(* of class Parser.                                                        *)
(***************************************************************************)
EXTENDS Integers, Sequences, FiniteSets, TLC

VARIABLES
    lexer,      \* the token table handed to Parser.__init__ (read-only)
    parser,     \* the Parser object: its attributes
    pc,         \* where the caller / run_parser is
    err,        \* the exception that left run_parser, if any
    events,     \* what an observer of the parse has seen, in order
    mode,       \* how lines are delivered: "pull", "push" or "iter"
    handler,    \* which on_bad_token is in place: "default" or "override"
    input,      \* the text the caller parses: blocks, each a sequence of lines
    feed,       \* push mode: the lines the caller has still to hand over
    purged,     \* observer: how many lines cache_purge has trimmed so far
    mark        \* observer: what a caller of the line cache noted at its first push

vars == <<lexer, parser, pc, err, events, mode, handler, input, feed, purged, mark>>

----------------------------------------------------------------------------
(* Bounds of the model                                                     *)

\* Commits after which the model stops following a parse.
MaxCommits == 4

\* Children a generated composite may list.
MaxKids == 2

\* Snapshots a caller of the line cache pushes in a row.
MaxPushes == 2

\* Calls a caller of the line cache makes in all.
MaxCalls == 8

----------------------------------------------------------------------------
(* Python values                                                           *)

NL == "\n"

Min(a, b) == IF a < b THEN a ELSE b

\* str.lower over the alphabet of the model
lower(c) == IF c = "A" THEN "a" ELSE IF c = "B" THEN "b" ELSE c

lowerall(s) == [i \in 1..Len(s) |-> lower(s[i])]

\* line[pos:pos+n], with Python's clipping of slices
slice(line, pos, n) ==
    IF pos >= Len(line) THEN <<>> ELSE SubSeq(line, pos + 1, Min(pos + n, Len(line)))

\* index of the first line break of s, 0 when it has none
FirstNL(s) ==
    IF \E i \in 1..Len(s) : s[i] = NL
    THEN CHOOSE i \in 1..Len(s) : s[i] = NL /\ \A j \in 1..(i - 1) : s[j] # NL
    ELSE 0

\* a readline that forgets to split a block into its lines
splitlines_whole(s) == IF s = <<>> THEN <<>> ELSE <<s>>

RECURSIVE splitlines(_)
\* str.splitlines(): the pieces between line breaks, no empty piece at the end
splitlines(s) ==
    IF s = <<>> THEN <<>>
    ELSE LET i == FirstNL(s)
         IN IF i = 0 THEN <<s>>
            ELSE <<SubSeq(s, 1, i - 1)>> \o splitlines(SubSeq(s, i + 1, Len(s)))

\* the generator expression of readline: l + '\n' for l in splitted
with_newline(splitted) == [i \in 1..Len(splitted) |-> Append(splitted[i], NL)]

----------------------------------------------------------------------------
(* LexerError                                                              *)

E_TOKEN_NOT_FOUND == 1
E_MISSING_MATCH == 2
E_MISSING_AFTER == 3
E_LOOP == 4
E_NO_MATCH == 5
\* not a LexerError: the exception a hook of the table raises
E_HOOK == E_NO_MATCH + 1

NoError == [id |-> 0, name |-> "", lineno |-> 0, pos |-> 0]

LexerError(id, name) == [id |-> id, name |-> name, lineno |-> 0, pos |-> 0]

NoMatchError(lineno, pos) == [id |-> E_NO_MATCH, name |-> "", lineno |-> lineno, pos |-> pos]

HookError(name) == [id |-> E_HOOK, name |-> name, lineno |-> 0, pos |-> 0]

Structural == {E_TOKEN_NOT_FOUND, E_MISSING_MATCH, E_MISSING_AFTER, E_LOOP}

----------------------------------------------------------------------------
(* The line cache and the snapshot stack                                   *)

\* the first half of Parser.readline: fetch a block from the line source
readline_fetch(P) ==
    IF P.next_lineidx >= Len(P.line_cache) /\ P.current_readline
    THEN LET line == IF P.source = <<>> THEN <<>> ELSE Head(P.source)
             rest == IF P.source = <<>> THEN <<>> ELSE Tail(P.source)
         IN IF line # <<>>
            THEN LET splitted == IF P.eol_newline
                                 THEN with_newline(splitlines(line))
                                 ELSE splitlines(line)
                 IN [P EXCEPT !.source = rest,
                              !.line_cache = @ \o splitted]
            ELSE [P EXCEPT !.source = rest, !.current_readline = FALSE]
    ELSE P

\* Parser.readline: the parser after the call, and the line returned.  `wanted`
\* is no attribute of Parser: it records that a call found no line to deliver.
readline(P) ==
    LET Q == readline_fetch(P)
    IN IF Q.next_lineidx < Len(Q.line_cache)
       THEN LET line == Q.line_cache[Q.next_lineidx + 1]
            IN [P |-> [Q EXCEPT !.next_lineidx = @ + 1,
                                !.current_lineno = @ + 1,
                                !.current_pos = 0,
                                !.current_line = line],
                line |-> line]
       ELSE [P |-> [Q EXCEPT !.wanted = TRUE], line |-> <<>>]

Frame(P) ==
    [next_lineidx |-> P.next_lineidx, current_lineno |-> P.current_lineno,
     current_pos |-> P.current_pos, current_line |-> P.current_line]

\* a snapshot that does not keep the text of the current line
cache_push_no_line(P) ==
    [P EXCEPT !.idx_stack = Append(@, [Frame(P) EXCEPT !.current_line = <<>>])]

cache_push(P) == [P EXCEPT !.idx_stack = Append(@, Frame(P))]

\* a rollback that drops the snapshot without restoring the cursor from it
cache_pop_discarding(P) ==
    IF P.idx_stack # <<>>
    THEN [P EXCEPT !.idx_stack = SubSeq(@, 1, Len(@) - 1)]
    ELSE P

\* a rollback that restores the indices and keeps the line it finds
cache_pop_keeping_line(P) ==
    IF P.idx_stack # <<>>
    THEN LET f == P.idx_stack[Len(P.idx_stack)]
         IN [P EXCEPT !.next_lineidx = f.next_lineidx,
                      !.current_lineno = f.current_lineno,
                      !.current_pos = f.current_pos,
                      !.idx_stack = SubSeq(@, 1, Len(@) - 1)]
    ELSE P

cache_pop(P) ==
    IF P.idx_stack # <<>>
    THEN LET f == P.idx_stack[Len(P.idx_stack)]
         IN [P EXCEPT !.next_lineidx = f.next_lineidx,
                      !.current_lineno = f.current_lineno,
                      !.current_pos = f.current_pos,
                      !.current_line = f.current_line,
                      !.idx_stack = SubSeq(@, 1, Len(@) - 1)]
    ELSE P

cache_discard(P) ==
    IF P.idx_stack # <<>>
    THEN [P EXCEPT !.idx_stack = SubSeq(@, 1, Len(@) - 1)]
    ELSE P

\* a purge that clears the snapshots and keeps every cached line
cache_purge_stack_only(P) == [P EXCEPT !.idx_stack = <<>>, !.purges = @ + 1]

\* Parser.cache_purge.  `purges` is no attribute of Parser: it counts the calls.
cache_purge(P) ==
    LET Q == IF P.idx_stack # <<>> THEN [P EXCEPT !.idx_stack = <<>>] ELSE P
    IN IF Q.line_cache # <<>>
       THEN [Q EXCEPT !.line_cache = SubSeq(@, Q.next_lineidx + 1, Len(@)),
                      !.next_lineidx = 0, !.purges = @ + 1]
       ELSE [Q EXCEPT !.purges = @ + 1]

----------------------------------------------------------------------------
(* Parser.iter_tokens: the generator object and its next()                 *)

\* a generator that is to look up its start symbol twice
iter_tokens_twice(name) ==
    [onpath |-> {}, visited |-> {}, stack |-> <<>>, token_iter |-> <<name, name>>,
     done |-> FALSE, iter_calls |-> <<>>]

\* the generator just created by iter_tokens(name), before its first next()
iter_tokens(name) ==
    [onpath |-> {}, visited |-> {}, stack |-> <<>>, token_iter |-> <<name>>,
     done |-> FALSE, iter_calls |-> <<>>]

\* a yield after which the generator looks up the same name again
IterYield_again(g, name) ==
    [g |-> [g EXCEPT !.token_iter = <<name>> \o @], out |-> "yield", name |-> name,
     error |-> NoError]

\* `yield name, token`
IterYield(g, name) == [g |-> g, out |-> "yield", name |-> name, error |-> NoError]

IterStop(g) ==
    [g |-> [g EXCEPT !.done = TRUE], out |-> "stop", name |-> "", error |-> NoError]

IterRaise(g, error) ==
    [g |-> [g EXCEPT !.done = TRUE], out |-> "raise", name |-> error.name, error |-> error]

\* an E_LOOP that names the composite whose children led back, not the one
\* re-entered
LoopName_parent(g, name) == g.stack[Len(g.stack)].name

\* the name the E_LOOP error carries when `name` is re-entered
LoopName(g, name) == name

\* an expansion that never skips a composite it has expanded before
AlreadyVisited_never(g, name) == FALSE

\* `name in visited`: a composite already expanded in this arming is skipped
AlreadyVisited(g, name) == name \in g.visited

\* a resolver that does not check leaves for `after`
HasAfter_unchecked(token) == TRUE

\* `'after' not in token`, negated
HasAfter(token) == token.has_after

\* children taken from the end of the list first
Children_reversed(token) ==
    [i \in 1..Len(token.kids) |-> token.kids[Len(token.kids) + 1 - i]]

\* iter(match): the children of a composite, in the order the table lists them
Children(token) == token.kids

RECURSIVE iter_next(_, _)
\* next(generator, None): runs the body of iter_tokens up to its next yield,
\* its end or its raise
iter_next(lex, g) ==
    IF g.done THEN IterStop(g)
    ELSE IF g.token_iter = <<>>
    THEN IF g.stack = <<>>
         THEN IterStop(g)
         ELSE LET top == g.stack[Len(g.stack)]
              IN iter_next(lex, [g EXCEPT !.stack = SubSeq(@, 1, Len(@) - 1),
                                          !.token_iter = top.token_iter,
                                          !.onpath = @ \ {top.name}])
    ELSE LET name == Head(g.token_iter)
             g1 == [g EXCEPT !.token_iter = Tail(@)]
         IN IF name \notin DOMAIN lex
            THEN IterRaise(g1, LexerError(E_TOKEN_NOT_FOUND, name))
            ELSE LET token == lex[name]
                 IN IF token.kind = "nomatch"
                    THEN IterRaise(g1, LexerError(E_MISSING_MATCH, name))
                    ELSE IF token.kind = "leaf"
                    THEN IF ~HasAfter(token)
                         THEN IterRaise(g1, LexerError(E_MISSING_AFTER, name))
                         ELSE IterYield(g1, name)
                    ELSE IF name \in g1.onpath
                    THEN IterRaise(g1, LexerError(E_LOOP, LoopName(g1, name)))
                    ELSE IF AlreadyVisited(g1, name)
                    THEN iter_next(lex, g1)
                    ELSE iter_next(lex,
                            [g1 EXCEPT !.onpath = @ \cup {name},
                                       !.visited = @ \cup {name},
                                       !.stack = Append(@, [name |-> name,
                                                            token_iter |-> g1.token_iter]),
                                       !.token_iter = Children(token),
                                       !.iter_calls = Append(@, name)])

\* a re-arming that leaves the running generator in place
reset_iter_kept(P, lookup) == P

\* Parser.reset_iter
reset_iter(P, lookup) == [P EXCEPT !.current_iter = iter_tokens(lookup)]

----------------------------------------------------------------------------
(* Matchers                                                                *)

\* MS.__init__, MRE.__init__, MM.__init__ and the Matcher subclasses of the tests
MS(string, icase) ==
    [t |-> "MS", string |-> IF icase THEN lowerall(string) ELSE string, icase |-> icase]

\* a compiled pattern: literal alternatives tried in order, each either free or
\* anchored at the end of the line ('$')
MRE(alts) == [t |-> "MRE", alts |-> alts]

MM(args) == [t |-> "MM", args |-> args]

mmatch(what) == [t |-> "mmatch", what |-> what]

lookahead(first, second) == [t |-> "lookahead", first |-> first, second |-> second]

NoResult(P) == [P |-> P, ok |-> FALSE, new_pos |-> 0, val |-> <<>>]

Result(P, new_pos, val) == [P |-> P, ok |-> TRUE, new_pos |-> new_pos, val |-> val]

MS_match(m, P, line, pos) ==
    LET tmp == slice(line, pos, Len(m.string))
        folded == IF m.icase THEN lowerall(tmp) ELSE tmp
    IN IF folded = m.string
       THEN Result(P, pos + Len(m.string), m.string)
       ELSE NoResult(P)

\* whether alternative a of a pattern matches line at pos
AltMatches(a, line, pos) ==
    /\ slice(line, pos, Len(a.lit)) = a.lit
    /\ a.anchored => pos + Len(a.lit) = Len(line)

MRE_match(m, P, line, pos) ==
    IF \E i \in 1..Len(m.alts) : AltMatches(m.alts[i], line, pos)
    THEN LET i == CHOOSE i \in 1..Len(m.alts) :
                    /\ AltMatches(m.alts[i], line, pos)
                    /\ \A j \in 1..(i - 1) : ~AltMatches(m.alts[j], line, pos)
         IN Result(P, pos + Len(m.alts[i].lit), m.alts[i].lit)
    ELSE NoResult(P)

\* the line of spam of TestMultiline.test_match1, one character long here
Spam == <<"s">>

RECURSIVE mmatch_spam(_, _, _)
\* the while loop of the multi-line matcher of TestMultiline.test_match1
mmatch_spam(m, P, new_pos) ==
    LET pushed == cache_push(P)
        r == readline(pushed)
    IN IF r.line # Spam
       THEN Result(cache_pop(r.P), new_pos, m.what)
       ELSE mmatch_spam(m, cache_discard(r.P), Len(Spam))

mmatch_match(m, P, line, pos) ==
    IF line # m.what THEN NoResult(P)
    ELSE mmatch_spam(m, P, pos + Len(m.what))

\* a Matcher subclass that reads one line ahead and may fail after reading it
lookahead_match(m, P, line, pos) ==
    IF slice(line, pos, Len(line)) # m.first THEN NoResult(P)
    ELSE LET r == readline(P)
         IN IF r.line # m.second THEN NoResult(r.P)
            ELSE Result(r.P, Len(m.second), m.first \o m.second)

RECURSIVE match(_, _, _, _)
RECURSIVE MM_match_from(_, _, _, _, _)

\* the for loop of MM.match, from member i on
MM_match_from(m, i, P, line, pos) ==
    IF i > Len(m.args) THEN NoResult(P)
    ELSE LET r == match(m.args[i], cache_push(P), line, pos)
         IN IF r.ok THEN r
            ELSE MM_match_from(m, i + 1, cache_pop(r.P), line, pos)

\* an alternation that gives up when its first member fails
MM_match_first_only(m, P, line, pos) ==
    IF m.args = <<>> THEN NoResult(P)
    ELSE LET r == match(m.args[1], cache_push(P), line, pos)
         IN IF r.ok THEN r ELSE NoResult(cache_pop(r.P))

\* MM.match
MM_match(m, P, line, pos) == MM_match_from(m, 1, P, line, pos)

\* matcher.match(parser, line, pos): the parser after the call and the result
match(m, P, line, pos) ==
    CASE m.t = "MS" -> MS_match(m, P, line, pos)
      [] m.t = "MRE" -> MRE_match(m, P, line, pos)
      [] m.t = "MM" -> MM_match(m, P, line, pos)
      [] m.t = "mmatch" -> mmatch_match(m, P, line, pos)
      [] m.t = "lookahead" -> lookahead_match(m, P, line, pos)

----------------------------------------------------------------------------
(* Token tables                                                            *)

\* dict(match = <Matcher>, after = <name>)
Leaf(m, after) ==
    [kind |-> "leaf", matcher |-> m, kids |-> <<>>, has_after |-> TRUE,
     after |-> after, after_call |-> FALSE, on_match |-> "none", on_fail |-> "none"]

\* dict(match = <Matcher>): a leaf that declares no `after`
LeafNoAfter(m) == [Leaf(m, "") EXCEPT !.has_after = FALSE]

\* dict(match = (<name>, ...))
Comp(kids) ==
    [kind |-> "comp", matcher |-> MS(<<>>, FALSE), kids |-> kids, has_after |-> FALSE,
     after |-> "", after_call |-> FALSE, on_match |-> "none", on_fail |-> "none"]

\* dict(): a token with no `match`
Empty == [Comp(<<>>) EXCEPT !.kind = "nomatch"]

\* after = lambda parser: <name>
Calling(token) == [token EXCEPT !.after_call = TRUE]

OnMatch(token, hook) == [token EXCEPT !.on_match = hook]

OnFail(token, hook) == [token EXCEPT !.on_fail = hook]

\* BASE of the tests: _begin = 'begin', finish = MRE('\n?$')
BASE ==
    ("_begin" :> "begin") @@
    ("finish" :> Leaf(MRE(<<[lit |-> <<NL>>, anchored |-> TRUE],
                            [lit |-> <<>>, anchored |-> TRUE]>>), "nowhere"))

\* test_ms, with a case-folding literal
T_ms ==
    ("begin" :> Leaf(MS(<<"a">>, FALSE), "word2")) @@
    ("word2" :> Leaf(MS(<<"B">>, TRUE), "finish")) @@ BASE

\* test_nested_groups and test_on_match_call_ignoring: groups, hooks that return
T_groups ==
    ("begin" :> Comp(<<"wontmatch", "words", "finish">>)) @@
    ("wontmatch" :> Comp(<<"nomatch1">>)) @@
    ("nomatch1" :> OnFail(Leaf(MS(<<"x", "x">>, FALSE), "nowhere"), "ok")) @@
    ("words" :> Comp(<<"word1", "word2">>)) @@
    ("word1" :> OnFail(OnMatch(Leaf(MS(<<"a">>, FALSE), "begin"), "ok"), "ok")) @@
    ("word2" :> OnMatch(Leaf(MS(<<"b">>, FALSE), "begin"), "ok")) @@ BASE

\* test_e_loop_and_visits
T_loop ==
    ("begin" :> Comp(<<"a", "b">>)) @@
    ("a" :> Comp(<<"a1", "a2">>)) @@
    ("a1" :> Leaf(MS(<<"a">>, FALSE), "foo")) @@
    ("a2" :> Leaf(MS(<<"b">>, FALSE), "begin")) @@
    ("b" :> Comp(<<"a", "b1">>)) @@
    ("b1" :> Comp(<<"a", "b">>)) @@ BASE

\* a composite shared by two parents, no cycle
T_shared ==
    ("begin" :> Comp(<<"a", "b">>)) @@
    ("a" :> Comp(<<"a1", "a1">>)) @@
    ("a1" :> OnFail(Leaf(MS(<<"a">>, FALSE), "begin"), "ok")) @@
    ("b" :> Comp(<<"a", "b1">>)) @@
    ("b1" :> Leaf(MS(<<"b">>, FALSE), "b")) @@ BASE

\* test_e_token_not_found, test_e_missing_match, test_e_missing_after
T_not_found == BASE

T_missing_match == ("begin" :> Empty) @@ BASE

T_missing_after == ("begin" :> LeafNoAfter(MS(<<"a">>, FALSE))) @@ BASE

\* defects that are reached only after a failed leaf or after a commit
T_late_defect ==
    ("begin" :> Comp(<<"word1", "word2", "gone">>)) @@
    ("word1" :> Leaf(MS(<<"a">>, FALSE), "second")) @@
    ("word2" :> Leaf(MS(<<"b">>, FALSE), "nowhere")) @@
    ("second" :> Comp(<<"word1", "bare", "word2">>)) @@
    ("bare" :> LeafNoAfter(MS(<<"b">>, FALSE))) @@ BASE

\* TestMultiline.test_match1 and a matcher that fails after reading ahead
T_multiline ==
    ("begin" :> Comp(<<"pair", "word1", "word2">>)) @@
    ("pair" :> Leaf(lookahead(<<"a">>, <<"b">>), "begin")) @@
    ("word1" :> Leaf(mmatch(<<"a">>), "begin")) @@
    ("word2" :> Leaf(MS(<<"b">>, FALSE), "begin")) @@ BASE

\* test_mm_match
T_mm ==
    ("begin" :> Leaf(MM(<<MS(<<"x">>, FALSE), lookahead(<<"a">>, <<"x">>),
                          MS(<<"a">>, FALSE)>>), "begin")) @@ BASE

\* test_mm_nomatch, with an alternation whose first member can match before
\* one that reads a line ahead
T_mm_first ==
    ("begin" :> Comp(<<"mmatch", "word2">>)) @@
    ("mmatch" :> Leaf(MM(<<MS(<<"a">>, FALSE), lookahead(<<"a">>, <<"x">>)>>),
                      "begin")) @@
    ("word2" :> Leaf(MS(<<"b">>, FALSE), "begin")) @@ BASE

\* test_after_is_call and test_on_match_call_raising
T_calls ==
    ("begin" :> Comp(<<"word1", "word2">>)) @@
    ("word1" :> Calling(Leaf(MS(<<"a">>, FALSE), "begin"))) @@
    ("word2" :> OnMatch(OnFail(Leaf(MS(<<"b">>, FALSE), "begin"), "raise"), "raise")) @@ BASE

\* a leaf that matches the empty string
T_empty ==
    ("begin" :> Comp(<<"word1", "nothing">>)) @@
    ("word1" :> Leaf(MS(<<"a">>, FALSE), "begin")) @@
    ("nothing" :> Leaf(MS(<<>>, FALSE), "begin")) @@ BASE

\* sequences over S of length at most n
SeqsUpTo(S, n) == UNION {[1..k -> S] : k \in 0..n}

\* the shapes the token "y" takes in a generated table
Shapes == {"leaf", "no_after", "no_match", "absent"}

\* tables whose composites "a" and "b" list any children among a, b, x, y
Generated(kids_a, kids_b, shape) ==
    LET common == ("begin" :> Comp(<<"a", "b">>)) @@
                  ("a" :> Comp(kids_a)) @@ ("b" :> Comp(kids_b)) @@
                  ("x" :> Leaf(MS(<<"a">>, FALSE), "begin")) @@ BASE
    IN IF shape = "leaf" THEN ("y" :> Leaf(MS(<<"b">>, FALSE), "begin")) @@ common
       ELSE IF shape = "no_after" THEN ("y" :> LeafNoAfter(MS(<<"b">>, FALSE))) @@ common
       ELSE IF shape = "no_match" THEN ("y" :> Empty) @@ common
       ELSE common

GeneratedTables ==
    {Generated(ka, kb, sh) : ka \in SeqsUpTo({"a", "b", "x", "y"}, MaxKids),
                             kb \in SeqsUpTo({"a", "b", "x", "y"}, MaxKids),
                             sh \in Shapes}

Tables ==
    {T_ms, T_groups, T_loop, T_shared, T_not_found, T_missing_match, T_missing_after,
     T_late_defect, T_multiline, T_mm, T_mm_first, T_calls, T_empty}

----------------------------------------------------------------------------
(* Parser.__init__ and the loop of Parser.run_parser                       *)

\* Parser(lexer, eol_newline), then parse_lines(blocks): the source answers with
\* the blocks in turn and with '' once they are used up
Parser(lex, eol_newline, blocks) ==
    [eol_newline |-> eol_newline,
     current_readline |-> TRUE,
     source |-> blocks,
     line_cache |-> <<>>,
     idx_stack |-> <<>>,
     next_lineidx |-> 0,
     current_iter |-> iter_tokens(lex["_begin"]),
     current_line |-> <<>>,
     current_lineno |-> 0,
     current_pos |-> 0,
     wanted |-> FALSE,
     purges |-> 0]

\* one entry of the observer's log
Ev(ev, name, P) ==
    [ev |-> ev, name |-> name, lineno |-> P.current_lineno, pos |-> P.current_pos,
     line |-> P.current_line, val |-> <<>>]

EvVal(ev, name, P, val) == [Ev(ev, name, P) EXCEPT !.val = val]

\* a loop head that does not leave the loop when readline has nothing
EndOfInput_never(line) == FALSE

\* `not self.readline()`
EndOfInput(line) == line = <<>>

\* a loop head that asks the resolver for a candidate without looking for input
LoopTop_always_next(W) == [W EXCEPT !.pc = "next"]

\* the head of the loop: `if self.current_pos >= len(self.current_line) and not
\* self.readline(): break`.  W is the record of parser, pc, err and events.
LoopTop(W) ==
    LET P == W.parser
    IN IF P.current_pos >= Len(P.current_line)
       THEN LET r == readline(P)
            IN IF EndOfInput(r.line)
               THEN [W EXCEPT !.parser = r.P, !.pc = "returned",
                              !.events = Append(@, Ev("end", "", r.P))]
               ELSE [W EXCEPT !.parser = r.P, !.pc = "next",
                              !.events = Append(@, Ev("readline", "", r.P))]
       ELSE [W EXCEPT !.pc = "next"]

\* an on_bad_token that reports the index into the line cache as the line number
on_bad_token_cache_index(P) == NoMatchError(P.next_lineidx, P.current_pos + 1)

\* Parser.on_bad_token
on_bad_token(P) == NoMatchError(P.current_lineno, P.current_pos + 1)

\* `result = next(self.current_iter, None); if not result: self.on_bad_token(); break`
Exhausted(W, P, hdl) ==
    IF hdl = "default"
    THEN [W EXCEPT !.parser = P, !.pc = "raised", !.err = on_bad_token(P),
                   !.events = Append(@, Ev("bad_token", "", P))]
    ELSE [W EXCEPT !.parser = P, !.pc = "returned",
                   !.events = Append(@, Ev("bad_token", "", P))]

\* a failure branch that fetches the on_match hook
FailHook_on_match(token) == [hook |-> "on_match", does |-> token.on_match]

\* the hook run for a leaf that failed: token.get('on_fail')
FailHook(token) == [hook |-> "on_fail", does |-> token.on_fail]

\* a failure branch that catches what on_fail raises and goes on
Failed_swallowing(W, P, name, token, before) ==
    LET Q == cache_pop(P)
        seen == W.events \o <<Ev("attempt", name, before), Ev("fail", name, Q)>>
    IN IF token.on_fail = "none"
       THEN [W EXCEPT !.parser = Q, !.pc = "top", !.events = seen]
       ELSE [W EXCEPT !.parser = Q, !.pc = "top",
                      !.events = Append(seen, Ev("on_fail", name, Q))]

\* the branch `if match is None`: roll back, run on_fail, go on with the next
Failed(W, P, name, token, before) ==
    LET Q == cache_pop(P)
        hook == FailHook(token)
        seen == W.events \o <<Ev("attempt", name, before), Ev("fail", name, Q)>>
    IN IF hook.does = "none"
       THEN [W EXCEPT !.parser = Q, !.pc = "top", !.events = seen]
       ELSE IF hook.does = "ok"
       THEN [W EXCEPT !.parser = Q, !.pc = "top",
                      !.events = Append(seen, Ev(hook.hook, name, Q))]
       ELSE [W EXCEPT !.parser = Q, !.pc = "raised", !.err = HookError(name),
                      !.events = Append(seen, Ev(hook.hook, name, Q))]

\* a token_match that is not told which leaf matched
token_match_unnamed(name, P, val) == EvVal("token_match", "", P, val)

\* Parser.token_match(token, match): what the call records, 'Matched: <token>
\* at line <current_lineno> pos <current_pos + 1>', with the value it was given
token_match(name, P, val) == EvVal("token_match", name, P, val)

\* the rest of the loop body after a match: token_match, on_match, after,
\* current_pos, reset_iter, cache_purge
Matched(W, P, name, token, before, new_pos, val) ==
    LET seen == W.events \o <<Ev("attempt", name, before),
                              token_match(name, P, val)>>
        hooked == IF token.on_match = "none" THEN seen
                  ELSE Append(seen, Ev("on_match", name, P))
        called == IF token.after_call
                  THEN Append(hooked, Ev("after", token.after, P))
                  ELSE hooked
        moved == [P EXCEPT !.current_pos = new_pos]
        Q == cache_purge(reset_iter(moved, token.after))
    IN IF token.on_match = "raise"
       THEN [W EXCEPT !.parser = P, !.pc = "raised", !.err = HookError(name),
                      !.events = hooked]
       ELSE [W EXCEPT !.parser = Q, !.pc = "top",
                      !.purged = @ + (Len(moved.line_cache) - Len(Q.line_cache)),
                      !.events = Append(called, Ev("commit", token.after, Q))]

\* the loop body from `result = next(self.current_iter, None)` on
LoopBody(lex, W, hdl) ==
    LET n == iter_next(lex, W.parser.current_iter)
        P == [W.parser EXCEPT !.current_iter = n.g]
    IN IF n.out = "raise"
       THEN [W EXCEPT !.parser = P, !.pc = "raised", !.err = n.error,
                      !.events = Append(@, Ev("raise", n.name, P))]
       ELSE IF n.out = "stop"
       THEN Exhausted(W, P, hdl)
       ELSE LET token == lex[n.name]
                pushed == cache_push(P)
                m == match(token.matcher, pushed, pushed.current_line, pushed.current_pos)
            IN IF ~m.ok
               THEN Failed(W, m.P, n.name, token, P)
               ELSE Matched(W, m.P, n.name, token, P, m.new_pos, m.val)

----------------------------------------------------------------------------
(* Inputs                                                                  *)

RECURSIVE join(_)
\* '\n'.join(lines)
join(lines) ==
    IF lines = <<>> THEN <<>>
    ELSE IF Len(lines) = 1 THEN lines[1]
    ELSE lines[1] \o <<NL>> \o join(Tail(lines))

\* the blocks of text handed to parse_lines
Blocks(inp) == [i \in 1..Len(inp) |-> join(inp[i])]

RECURSIVE Lines(_)
\* the lines of an input, one after the other
Lines(inp) == IF inp = <<>> THEN <<>> ELSE Head(inp) \o Lines(Tail(inp))

Inputs ==
    { <<>>,
      << <<<<"a">>>> >>,
      << <<<<"a", "b">>>> >>,
      << <<<<"b", "a">>>> >>,
      << <<<<"x">>>> >>,
      << <<<<"a", "x">>>> >>,
      << <<<<"a", "B">>>> >>,
      << <<<<"a">>, <<"b">>>> >>,
      << <<<<"a">>>>, <<<<"b">>>> >>,
      << <<<<"a">>, <<"x">>>> >>,
      << <<<<"b", "a">>, <<"x">>>> >>,
      << <<<<"a">>>>, <<<<"s">>>>, <<<<"s">>, <<"b", "x">>>> >>,
      << <<<<"a">>>>, <<>>, <<<<"b">>>> >>,
      << <<<<"a">>, <<>>, <<"b">>>> >>,
      << <<<<"b">>, <<"a">>, <<"a">>, <<"x">>>> >> }

----------------------------------------------------------------------------
(* The state machine                                                       *)

World == [parser |-> parser, pc |-> pc, err |-> err, events |-> events, purged |-> purged]

Becomes(W) ==
    /\ parser' = W.parser
    /\ pc' = W.pc
    /\ err' = W.err
    /\ events' = W.events
    /\ purged' = W.purged

Commits(evs) == Len(SelectSeq(evs, LAMBDA e : e.ev = "commit"))

\* the parser starts a step with no line asked for in vain
Fresh(W) == [W EXCEPT !.parser.wanted = FALSE]

\* nothing noted
NoMark ==
    [frame |-> <<>>, depth |-> 0, pushes |-> 0, pops |-> 0, calls |-> 0, high |-> 0,
     first |-> <<>>, again |-> <<>>]

\* pull mode: Parser(lexer, eol_newline).parse_lines(blocks)
InitPull ==
    /\ lexer \in Tables
    /\ input \in Inputs
    /\ mode = "pull"
    /\ handler \in {"default", "override"}
    /\ \E eol \in BOOLEAN : parser = Parser(lexer, eol, Blocks(input))
    /\ pc = "top"
    /\ err = NoError
    /\ events = <<>>
    /\ feed = [lines |-> <<>>, closed |-> TRUE]
    /\ purged = 0
    /\ mark = NoMark

\* the resolver alone: Parser(lexer), then next() on iter_tokens until it ends
InitIter ==
    /\ lexer \in Tables \cup GeneratedTables
    /\ input = <<>>
    /\ mode = "iter"
    /\ handler = "default"
    /\ parser = Parser(lexer, FALSE, <<>>)
    /\ pc = "iter"
    /\ err = NoError
    /\ events = <<>>
    /\ feed = [lines |-> <<>>, closed |-> TRUE]
    /\ purged = 0
    /\ mark = NoMark

\* push mode: the caller hands over the same lines one at a time and closes
\* the input after the last; the driver has no line source of its own
InitPush ==
    /\ lexer \in Tables
    /\ input \in {inp \in Inputs : \A i \in 1..Len(inp) : inp[i] # <<>>}
    /\ mode = "push"
    /\ handler \in {"default", "override"}
    /\ \E eol \in BOOLEAN :
        parser = [Parser(lexer, eol, <<>>) EXCEPT !.current_readline = FALSE]
    /\ pc = "top"
    /\ err = NoError
    /\ events = <<>>
    /\ feed = [lines |-> Lines(input), closed |-> FALSE]
    /\ purged = 0
    /\ mark = NoMark

\* the line cache alone: a matcher's calls of readline, cache_push and
\* cache_pop on a parser that has its line source, with or without a snapshot
\* of the driver below
InitBuffer ==
    /\ lexer = T_ms
    /\ input \in Inputs
    /\ mode = "buffer"
    /\ handler = "default"
    /\ \E eol \in BOOLEAN : \E driver \in BOOLEAN :
        LET P == Parser(lexer, eol, Blocks(input))
        IN parser = IF driver THEN cache_push(P) ELSE P
    /\ pc = "buffer"
    /\ err = NoError
    /\ events = <<>>
    /\ feed = [lines |-> <<>>, closed |-> TRUE]
    /\ purged = 0
    /\ mark = NoMark

Init == InitPull \/ InitIter \/ InitPush \/ InitBuffer

\* `if self.current_pos >= len(self.current_line) and not self.readline(): break`
Top ==
    /\ mode = "pull"
    /\ pc = "top"
    /\ Commits(events) < MaxCommits
    /\ Becomes(LoopTop(Fresh(World)))
    /\ UNCHANGED <<lexer, mode, handler, input, feed, mark>>

\* the rest of one turn of the loop of run_parser
Body ==
    /\ mode = "pull"
    /\ pc = "next"
    /\ Becomes(LoopBody(lexer, Fresh(World), handler))
    /\ UNCHANGED <<lexer, mode, handler, input, feed, mark>>

\* next(self.current_iter, None), with nothing attempted on what it yields
Drain ==
    /\ mode = "iter"
    /\ pc = "iter"
    /\ LET n == iter_next(lexer, parser.current_iter)
           P == [parser EXCEPT !.current_iter = n.g]
       IN /\ parser' = P
          /\ pc' = IF n.out = "yield" THEN "iter" ELSE "drained"
          /\ err' = n.error
          /\ events' = Append(events, Ev(n.out, n.name, P))
    /\ UNCHANGED <<lexer, mode, handler, input, feed, purged, mark>>

\* the turn of the loop the driver is about to take
Turn(W) == IF W.pc = "top" THEN LoopTop(Fresh(W)) ELSE LoopBody(lexer, Fresh(W), handler)

\* push mode: the driver is suspended where it needs a line the caller has not
\* handed over yet
Suspended ==
    /\ mode = "push"
    /\ pc \in {"top", "next"}
    /\ ~feed.closed
    /\ Turn(World).parser.wanted

\* push mode: a turn of the loop that has the lines it needs
PushTurn ==
    /\ mode = "push"
    /\ pc \in {"top", "next"}
    /\ pc = "top" => Commits(events) < MaxCommits
    /\ ~Suspended
    /\ Becomes(Turn(World))
    /\ UNCHANGED <<lexer, mode, handler, input, feed, mark>>

\* push mode: the caller hands the suspended driver its next line
Feed ==
    /\ Suspended
    /\ feed.lines # <<>>
    /\ LET line == IF parser.eol_newline THEN Append(Head(feed.lines), NL)
                   ELSE Head(feed.lines)
       IN parser' = [parser EXCEPT !.line_cache = Append(@, line)]
    /\ feed' = [feed EXCEPT !.lines = Tail(@)]
    /\ UNCHANGED <<lexer, pc, err, events, mode, handler, input, purged, mark>>

\* push mode: the caller finalizes; the driver is resumed with no further line
Close ==
    /\ Suspended
    /\ feed.lines = <<>>
    /\ feed' = [feed EXCEPT !.closed = TRUE]
    /\ UNCHANGED <<lexer, parser, pc, err, events, mode, handler, input, purged, mark>>

\* parser.cache_push(), while no snapshot of the row has been popped
BufPush ==
    /\ mode = "buffer"
    /\ mark.calls < MaxCalls
    /\ mark.pops = 0 /\ mark.pushes < MaxPushes
    /\ parser' = cache_push(parser)
    /\ mark' = IF mark.pushes = 0
               THEN [mark EXCEPT !.frame = Frame(parser),
                                 !.depth = Len(parser.idx_stack),
                                 !.high = parser.current_lineno,
                                 !.pushes = 1, !.calls = @ + 1]
               ELSE [mark EXCEPT !.pushes = @ + 1, !.calls = @ + 1]
    /\ UNCHANGED <<lexer, pc, err, events, mode, handler, input, feed, purged>>

\* parser.cache_pop(), for a snapshot of the row
BufPop ==
    /\ mode = "buffer"
    /\ mark.calls < MaxCalls
    /\ mark.pops < mark.pushes
    /\ parser' = cache_pop(parser)
    /\ mark' = [mark EXCEPT !.pops = @ + 1, !.calls = @ + 1]
    /\ UNCHANGED <<lexer, pc, err, events, mode, handler, input, feed, purged>>

\* parser.readline(), at any point; the observer notes the lines delivered for
\* the first time since the first push, and those delivered after the last pop
BufRead ==
    /\ mode = "buffer"
    /\ mark.calls < MaxCalls
    /\ LET r == readline(parser)
           delivered == r.P.current_lineno # parser.current_lineno
           new == delivered /\ r.P.current_lineno > mark.high
       IN /\ parser' = r.P
          /\ mark' = IF mark.pushes = 0 \/ ~delivered
                     THEN [mark EXCEPT !.calls = @ + 1]
                     ELSE IF mark.pops = mark.pushes
                     THEN [mark EXCEPT !.again = Append(@, r.line), !.calls = @ + 1]
                     ELSE IF new
                     THEN [mark EXCEPT !.first = Append(@, r.line),
                                       !.high = r.P.current_lineno, !.calls = @ + 1]
                     ELSE [mark EXCEPT !.calls = @ + 1]
    /\ UNCHANGED <<lexer, pc, err, events, mode, handler, input, feed, purged>>

Next == Top \/ Body \/ Drain \/ PushTurn \/ Feed \/ Close \/ BufPush \/ BufPop \/ BufRead

Spec == Init /\ [][Next]_vars

----------------------------------------------------------------------------
(* What the claims speak of                                                *)

Last(seq) == seq[Len(seq)]

IsLeaf(lex, name) == name \in DOMAIN lex /\ lex[name].kind = "leaf"

IsComposite(lex, name) == name \in DOMAIN lex /\ lex[name].kind = "comp"

\* every name a composite lists exists, and every leaf declares `after`
WellFormed(lex) ==
    /\ lex["_begin"] \in DOMAIN lex \ {"_begin"}
    /\ \A n \in DOMAIN lex \ {"_begin"} :
        /\ lex[n].kind # "nomatch"
        /\ lex[n].kind = "leaf" => lex[n].has_after
        /\ \A i \in 1..Len(lex[n].kids) : lex[n].kids[i] \in DOMAIN lex \ {"_begin"}

\* the state armed last: the target of the last commit, or the start symbol
Armed(lex, evs) ==
    LET commits == SelectSeq(evs, LAMBDA e : e.ev = "commit")
    IN IF commits = <<>> THEN lex["_begin"] ELSE Last(commits).name

\* the index in evs of the last commit, 0 when there is none
LastCommit(evs) ==
    IF \E i \in 1..Len(evs) : evs[i].ev = "commit"
    THEN CHOOSE i \in 1..Len(evs) :
            evs[i].ev = "commit" /\ \A j \in (i + 1)..Len(evs) : evs[j].ev # "commit"
    ELSE 0

\* the events of kind ev since the last commit
Since(evs, ev) ==
    SelectSeq(SubSeq(evs, LastCommit(evs) + 1, Len(evs)), LAMBDA e : e.ev = ev)

NamesOf(evs) == [i \in 1..Len(evs) |-> evs[i].name]

\* the leaves iter_tokens has yielded in the current arming
Yielded == IF mode = "iter" THEN NamesOf(Since(events, "yield"))
           ELSE NamesOf(Since(events, "attempt"))

IsPrefix(s, t) == Len(s) <= Len(t) /\ s = SubSeq(t, 1, Len(s))

RECURSIVE FlattenTree(_, _, _)
\* the plain flattening: every reference to a composite is replaced by the
\* flattening of its children (fuel bounds the depth on cyclic tables)
FlattenTree(lex, name, fuel) ==
    IF fuel = 0 \/ name \notin DOMAIN lex THEN <<>>
    ELSE IF lex[name].kind = "leaf" THEN <<name>>
    ELSE LET kids == lex[name].kids
             F[i \in 0..Len(kids)] ==
                 IF i = 0 THEN <<>>
                 ELSE F[i - 1] \o FlattenTree(lex, kids[i], fuel - 1)
         IN F[Len(kids)]

RECURSIVE Expand(_, _, _, _)
\* the depth-first, left-to-right expansion of the names `todo` below the
\* composites of `path`: a composite met again off the path adds nothing, and the
\* expansion stops at the first defect.  acc holds the leaves so far, the
\* composites expanded so far and the error that stopped it.
Expand(lex, todo, path, acc) ==
    IF todo = <<>> \/ acc.error # NoError THEN acc
    ELSE LET n == Head(todo)
         IN IF n \notin DOMAIN lex
            THEN [acc EXCEPT !.error = LexerError(E_TOKEN_NOT_FOUND, n)]
            ELSE IF lex[n].kind = "nomatch"
            THEN [acc EXCEPT !.error = LexerError(E_MISSING_MATCH, n)]
            ELSE IF lex[n].kind = "leaf"
            THEN IF lex[n].has_after
                 THEN Expand(lex, Tail(todo), path, [acc EXCEPT !.leaves = Append(@, n)])
                 ELSE [acc EXCEPT !.error = LexerError(E_MISSING_AFTER, n)]
            ELSE IF n \in path
            THEN [acc EXCEPT !.error = LexerError(E_LOOP, n)]
            ELSE IF n \in acc.expanded
            THEN Expand(lex, Tail(todo), path, acc)
            ELSE Expand(lex, Tail(todo), path,
                        Expand(lex, lex[n].kids, path \cup {n},
                               [acc EXCEPT !.expanded = @ \cup {n}]))

\* the decision sequence of a start symbol, and the defect that ends it
Decision(lex, start) ==
    Expand(lex, <<start>>, {}, [leaves |-> <<>>, expanded |-> {}, error |-> NoError])

Count(seq, x) == Len(SelectSeq(seq, LAMBDA y : y = x))

\* how often the composites expanded in this arming list the name c
References(lex, g, c) ==
    LET F[i \in 0..Len(g.iter_calls)] ==
            IF i = 0 THEN 0 ELSE F[i - 1] + Count(lex[g.iter_calls[i]].kids, c)
    IN F[Len(g.iter_calls)]

StackNames(g) == {g.stack[i].name : i \in 1..Len(g.stack)}

----------------------------------------------------------------------------
(* C2 as stated: on a table whose names all resolve and whose leaves all   *)
(* declare `after`, iter_tokens(start) yields the plain left-to-right,     *)
(* depth-first flattening of the graph below start.                        *)
C2_PlainFlattening ==
    (mode = "iter" /\ pc = "drained" /\ WellFormed(lexer) /\ err = NoError) =>
        Yielded = FlattenTree(lexer, lexer["_begin"], Cardinality(DOMAIN lexer))

(* C2 as amended: iter_tokens(start) yields the leaves of the left-to-right, *)
(* depth-first expansion in which a composite is expanded at its first     *)
(* reference only; it ends there, or raises E_LOOP after them when a       *)
(* composite is re-entered on its own path.                                *)
C2_FlatteningOnce ==
    (mode = "iter" /\ WellFormed(lexer)) =>
        LET d == Decision(lexer, lexer["_begin"])
        IN /\ IsPrefix(Yielded, d.leaves)
           /\ pc = "drained" => /\ Yielded = d.leaves
                                /\ err = d.error
                                /\ err.id \in {0, E_LOOP}

\* a shared composite has been skipped and the sequence has ended
C2_Witness ==
    /\ mode = "iter" /\ pc = "drained" /\ WellFormed(lexer) /\ err = NoError
    /\ Len(Yielded) >= 2
    /\ \E c \in parser.current_iter.visited : References(lexer, parser.current_iter, c) >= 2

(* C3: E_LOOP names the composite that is re-entered, which is on the       *)
(* expansion path at that moment and is listed by the composite on top of   *)
(* the path; on the table of test_e_loop_and_visits it names "b".           *)
C3_LoopNamesReentered ==
    (pc \in {"raised", "drained"} /\ err.id = E_LOOP) =>
        LET g == parser.current_iter
        IN /\ IsComposite(lexer, err.name)
           /\ err.name \in StackNames(g)
           /\ err.name \in g.onpath
           /\ \E i \in 1..Len(lexer[Last(g.stack).name].kids) :
                lexer[Last(g.stack).name].kids[i] = err.name
           /\ err = Decision(lexer, Armed(lexer, events)).error
           /\ (lexer = T_loop /\ Armed(lexer, events) = "begin") => err.name = "b"

\* the loop of test_e_loop_and_visits is reported, over input that matches nothing
C3_Witness ==
    /\ mode = "pull" /\ pc = "raised" /\ err.id = E_LOOP /\ lexer = T_loop
    /\ Len(Since(events, "fail")) = 2
    /\ Last(parser.current_iter.stack).name = "b1"

(* C4: within one arming no composite has its children iterated twice, and *)
(* a composite referenced again off the path is passed over silently: once *)
(* the expansion has ended without error, every composite it reached was   *)
(* iterated exactly once, however often it is listed.                      *)
C4_ExpandedOnce ==
    LET g == parser.current_iter
    IN /\ \A c \in DOMAIN lexer : Count(g.iter_calls, c) <= 1
       /\ g.visited = {g.iter_calls[i] : i \in 1..Len(g.iter_calls)}
       /\ (pc = "drained" /\ err = NoError) =>
            \A c \in DOMAIN lexer \ {"_begin"} :
                (IsComposite(lexer, c) /\ References(lexer, g, c) >= 1) =>
                    Count(g.iter_calls, c) = 1

\* a composite listed twice has been iterated once and the expansion has ended
C4_Witness ==
    /\ pc = "drained" /\ err = NoError
    /\ \E c \in DOMAIN lexer \ {"_begin"} :
        /\ IsComposite(lexer, c)
        /\ References(lexer, parser.current_iter, c) >= 2
        /\ Count(parser.current_iter.iter_calls, c) = 1
        /\ lexer[c].kids # <<>>

----------------------------------------------------------------------------
(* The driver                                                              *)

\* whether the matcher of leaf `name` succeeds where the parser stands
Succeeds(name) ==
    match(lexer[name].matcher, cache_push(parser),
          parser.current_line, parser.current_pos).ok

\* everything of the parser but its resolver
Cursor(P) ==
    <<P.next_lineidx, P.current_lineno, P.current_pos, P.current_line,
      P.line_cache, P.idx_stack, P.source, P.current_readline>>

\* whether event e was observed where the parser P stands
At(e, P) ==
    /\ e.lineno = P.current_lineno
    /\ e.pos = P.current_pos
    /\ e.line = P.current_line

RECURSIVE UpToEmpty(_)
\* the lines of the blocks before the first empty block
UpToEmpty(inp) ==
    IF inp = <<>> \/ Head(inp) = <<>> THEN <<>> ELSE Head(inp) \o UpToEmpty(Tail(inp))

\* the lines the source holds, as readline delivers them, in order
Physical ==
    LET ls == UpToEmpty(input)
    IN IF parser.eol_newline THEN [i \in 1..Len(ls) |-> Append(ls[i], NL)] ELSE ls

C1_Step ==
    (mode = "pull" /\ pc = "next" /\ Commits(events') > Commits(events)) =>
        LET seq == Decision(lexer, Armed(lexer, events)).leaves
            tried == SelectSeq(SubSeq(events', LastCommit(events) + 1, Len(events')),
                               LAMBDA e : e.ev = "attempt")
            k == Len(tried)
        IN /\ k >= 1 /\ k <= Len(seq)
           /\ NamesOf(tried) = SubSeq(seq, 1, k)
           /\ \A j \in 1..k : At(tried[j], parser)
           /\ NamesOf(Since(events, "fail")) = SubSeq(seq, 1, k - 1)
           /\ \A j \in 1..(k - 1) : ~Succeeds(seq[j])
           /\ Succeeds(seq[k])
           /\ \E i \in (Len(events) + 1)..Len(events') :
                events'[i].ev = "token_match" /\ events'[i].name = seq[k]

(* C1: the leaf a step commits is the first leaf of the armed state's      *)
(* decision sequence whose matcher succeeds at the current line and        *)
(* position; every leaf before it was attempted there and failed, and no   *)
(* leaf after it was attempted.                                            *)
C1_FirstMatchCommits == [][C1_Step]_vars

\* a leaf of a nested group is committed after two leaves before it failed
C1_Witness ==
    /\ mode = "pull" /\ lexer = T_groups
    /\ \E i \in 1..Len(events) :
        /\ events[i].ev = "token_match" /\ events[i].name = "word2"
        /\ i > 6
        /\ events[i - 6].ev = "fail" /\ events[i - 6].name = "nomatch1"
        /\ events[i - 3].ev = "fail" /\ events[i - 3].name = "word1"

(* C5: under the default handler E_NO_MATCH carries the number of the      *)
(* current line among the lines of the source and the 1-based column of    *)
(* the unmatched position, which is where every failed attempt of the      *)
(* arming started; a failure on the first character reports line 1,        *)
(* column 1.                                                               *)
C5_NoMatchPosition ==
    (mode = "pull" /\ pc = "raised" /\ err.id = E_NO_MATCH) =>
        /\ handler = "default"
        /\ err.lineno = parser.current_lineno
        /\ err.pos = parser.current_pos + 1
        /\ err.lineno = purged + parser.next_lineidx
        /\ err.lineno \in 1..Len(Physical)
        /\ Physical[err.lineno] = parser.current_line
        /\ err.pos \in 1..Len(parser.current_line)
        /\ Yielded = Decision(lexer, Armed(lexer, events)).leaves
        /\ \A i \in 1..Len(Since(events, "attempt")) :
            /\ Since(events, "attempt")[i].lineno = err.lineno
            /\ Since(events, "attempt")[i].pos + 1 = err.pos
        /\ Commits(events) = 0 => (err.lineno = 1 /\ err.pos = 1)

\* no match in column 2, after a commit purged the cache and a failed candidate
\* read a line ahead
C5_Witness ==
    /\ mode = "pull" /\ pc = "raised" /\ err.id = E_NO_MATCH
    /\ purged >= 1
    /\ err.pos = 2
    /\ Len(parser.line_cache) > parser.next_lineidx

(* C6: once the candidates are exhausted the parse ends with E_NO_MATCH    *)
(* raised to the caller, also under a handler that returns.                *)
C6_NoMatchRaised ==
    (mode = "pull" /\ events # <<>> /\ Last(events).ev = "bad_token") =>
        (pc = "raised" /\ err.id = E_NO_MATCH)

C7_Step ==
    LET d == Decision(lexer, Armed(lexer, events))
    IN (mode = "pull" /\ pc = "next" /\ Len(Yielded) = Len(d.leaves)
        /\ d.error.id \in Structural) =>
            /\ pc' = "raised"
            /\ err' = d.error
            /\ Cursor(parser') = Cursor(parser)
            /\ events' = Append(events, Ev("raise", d.error.name, parser))

(* C7: when the expansion reaches a defective node the step raises the     *)
(* error that names it; nothing is attempted, committed or hooked in that  *)
(* step and the cursor, the cache and the snapshot stack stay as they were. *)
C7_DefectRaisedAtOnce == [][C7_Step]_vars

\* a leaf without `after` is reported after a commit and a failed candidate
C7_Witness ==
    /\ mode = "pull" /\ pc = "raised" /\ err.id = E_MISSING_AFTER
    /\ Commits(events) >= 1
    /\ Len(Since(events, "fail")) >= 1
    /\ Last(events).ev = "raise"

C8_Step ==
    (mode = "pull" /\ pc = "top" /\ Commits(events) < MaxCommits
     /\ parser.current_pos >= Len(parser.current_line)
     /\ readline(parser).line = <<>>) =>
        /\ pc' = "returned"
        /\ err' = NoError
        /\ events' = Append(events, Ev("end", "", parser'))
        /\ parser'.current_iter = parser.current_iter

(* C8: when the current line is consumed and readline has no line to give, *)
(* run_parser returns without raising and without asking the resolver for  *)
(* a candidate, whatever state is armed.                                   *)
C8_EndOfInputReturns == [][C8_Step]_vars

\* the parse has returned while the state armed is not in the table
C8_Witness ==
    /\ mode = "pull" /\ pc = "returned" /\ Last(events).ev = "end"
    /\ Commits(events) >= 1
    /\ Armed(lexer, events) \notin DOMAIN lexer

(* C10: on_fail fires only for a leaf that failed and on_match only for a  *)
(* leaf that matched; after an on_fail that returns the driver attempts    *)
(* the next candidate of the arming at the same line and position.         *)
C10_FailHookThenNext ==
    mode = "pull" =>
    \A i \in 1..Len(events) :
        /\ events[i].ev = "on_fail" =>
            /\ i > 1 /\ events[i - 1].ev = "fail"
            /\ events[i - 1].name = events[i].name
            /\ lexer[events[i].name].on_fail # "none"
        /\ events[i].ev = "on_match" =>
            /\ i > 1 /\ events[i - 1].ev = "token_match"
            /\ events[i - 1].name = events[i].name
            /\ lexer[events[i].name].on_match # "none"
        /\ (events[i].ev = "fail" /\ lexer[events[i].name].on_fail # "none") =>
            (i < Len(events) /\ events[i + 1].ev = "on_fail")
        /\ (events[i].ev = "on_fail" /\ lexer[events[i].name].on_fail = "ok"
            /\ i < Len(events)) =>
            /\ events[i + 1].ev \in {"attempt", "bad_token", "raise"}
            /\ events[i + 1].ev = "attempt" =>
                /\ events[i + 1].lineno = events[i - 2].lineno
                /\ events[i + 1].pos = events[i - 2].pos
                /\ events[i + 1].line = events[i - 2].line
                /\ LET before == SubSeq(events, 1, i)
                       k == Len(Since(before, "attempt"))
                       seq == Decision(lexer, Armed(lexer, before)).leaves
                   IN /\ k < Len(seq)
                      /\ seq[k] = events[i].name
                      /\ seq[k + 1] = events[i + 1].name

\* on_fail of one leaf, then on_match of the next leaf at the same position
C10_Witness ==
    /\ mode = "pull"
    /\ \E i \in 1..Len(events) :
        /\ events[i].ev = "on_fail"
        /\ i + 3 <= Len(events)
        /\ events[i + 1].ev = "attempt" /\ events[i + 2].ev = "token_match"
        /\ events[i + 3].ev = "on_match"
        /\ events[i + 3].name # events[i].name
        /\ events[i + 1].pos = events[i - 2].pos
        /\ events[i + 1].lineno = events[i - 2].lineno

----------------------------------------------------------------------------
(* Delivery modes                                                          *)

RECURSIVE run_parser(_, _, _)
\* the loop of run_parser run to its end (or to the bound on commits) from W
run_parser(lex, W, hdl) ==
    IF W.pc = "top"
    THEN IF Commits(W.events) < MaxCommits
         THEN run_parser(lex, LoopTop(Fresh(W)), hdl)
         ELSE W
    ELSE IF W.pc = "next"
    THEN run_parser(lex, LoopBody(lex, Fresh(W), hdl), hdl)
    ELSE W

\* Parser(lexer, eol_newline).parse_lines(blocks), run to its end
parse_lines(lex, eol_newline, blocks, hdl) ==
    run_parser(lex, [parser |-> Parser(lex, eol_newline, blocks), pc |-> "top",
                     err |-> NoError, events |-> <<>>, purged |-> 0], hdl)

\* the (name, value) pairs token_match has received, in order
Tokens(evs) ==
    LET ms == SelectSeq(evs, LAMBDA e : e.ev = "token_match")
    IN [i \in 1..Len(ms) |-> <<ms[i].name, ms[i].val>>]

----------------------------------------------------------------------------
(* Hooks, transitions and the observer                                     *)

\* the cursor alone: what a snapshot saves
Position(P) == <<P.next_lineidx, P.current_lineno, P.current_pos, P.current_line>>

\* the hook of leaf `name` that the event e reports, and what it does
HookOf(e) ==
    IF e.ev = "on_fail" THEN lexer[e.name].on_fail
    ELSE IF e.ev = "on_match" THEN lexer[e.name].on_match
    ELSE "none"

C11_Step ==
    /\ pc = "raised" => FALSE
    /\ (mode = "pull" /\ pc = "next" /\ HookOf(Last(events')) = "raise") =>
        LET e == Last(events')
            n == iter_next(lexer, parser.current_iter)
            m == match(lexer[e.name].matcher, cache_push(parser),
                       parser.current_line, parser.current_pos)
        IN /\ pc' = "raised"
           /\ err'.id = E_HOOK /\ err'.name = e.name
           /\ n.name = e.name
           /\ Commits(events') = Commits(events)
           /\ Len(SelectSeq(SubSeq(events', Len(events) + 1, Len(events')),
                            LAMBDA x : x.ev = "attempt")) = 1
           /\ parser'.current_iter = n.g
           /\ e.ev = "on_fail" => /\ ~m.ok
                                  /\ Position(parser') = Position(parser)
                                  /\ parser'.idx_stack = parser.idx_stack
           /\ e.ev = "on_match" => /\ m.ok
                                   /\ Position(parser') = Position(m.P)
                                   /\ parser'.current_lineno = parser.current_lineno =>
                                        parser'.current_pos = parser.current_pos

(* C11: when on_match or on_fail raises, the exception leaves run_parser   *)
(* as it is: the step attempts no further candidate, commits nothing (the  *)
(* cursor is not advanced, the resolver is not re-armed), and nothing      *)
(* happens after the raise.                                                *)
C11_HookRaisePropagates == [][C11_Step]_vars

\* on_match has raised after an earlier commit and a failed candidate
C11_Witness ==
    /\ mode = "pull" /\ pc = "raised" /\ err.id = E_HOOK
    /\ Last(events).ev = "on_match"
    /\ Commits(events) >= 1
    /\ Len(Since(events, "fail")) >= 1
    /\ parser.current_pos < Len(parser.current_line)

\* on_fail has raised where its leaf failed
C11_FailHookRaised ==
    /\ mode = "pull" /\ pc = "raised" /\ err.id = E_HOOK
    /\ Last(events).ev = "on_fail"

\* the events the step from this state to the next has added
Added == SubSeq(events', Len(events) + 1, Len(events'))

C12_Step ==
    /\ (mode = "pull" /\ pc = "next" /\ Commits(events') > Commits(events)) =>
        LET n == iter_next(lexer, parser.current_iter)
            token == lexer[n.name]
            k == Len(events')
            calls == SelectSeq(Added, LAMBDA e : e.ev = "after")
        IN /\ n.out = "yield"
           /\ \E i \in 1..Len(Decision(lexer, Armed(lexer, events)).leaves) :
                Decision(lexer, Armed(lexer, events)).leaves[i] = n.name
           /\ events'[k].ev = "commit" /\ events'[k].name = token.after
           /\ Commits(events') = Commits(events) + 1
           /\ Armed(lexer, events') = token.after
           /\ parser'.current_iter = iter_tokens(token.after)
           /\ ~token.after_call => calls = <<>>
           /\ token.after_call =>
                /\ Len(calls) = 1
                /\ events'[k - 1].ev = "after" /\ events'[k - 1].name = token.after
                /\ events'[k - 2].ev = IF token.on_match = "none" THEN "token_match"
                                       ELSE "on_match"
                /\ events'[k - 1].pos = events'[k - 2].pos
                /\ events'[k - 1].lineno = parser'.current_lineno
                /\ parser'.current_pos > 0 => events'[k - 1].pos < parser'.current_pos
    /\ (mode = "pull" /\ pc = "top") =>
        /\ parser'.current_iter = parser.current_iter
        /\ Armed(lexer, events') = Armed(lexer, events)

(* C12: a commit arms exactly the leaf's `after` target as a name, the      *)
(* static name or what the callable returned (called once, after on_match  *)
(* and before the cursor moves); so every committed token is a leaf of the  *)
(* expansion of the state armed before it, and reading a new line neither   *)
(* re-arms nor changes the state.                                           *)
C12_AfterArmsNext == [][C12_Step]_vars

\* a callable `after` was called, its state armed, and a leaf of that state
\* attempted on a line read later
C12_Witness ==
    /\ mode = "pull"
    /\ \E i \in 1..Len(events) : \E j \in 1..Len(events) :
        /\ events[i].ev = "after"
        /\ i + 1 < j
        /\ events[i + 1].ev = "commit"
        /\ events[j].ev = "attempt"
        /\ events[j].lineno > events[i].lineno
        /\ \E k \in 1..Len(Decision(lexer, events[i + 1].name).leaves) :
             Decision(lexer, events[i + 1].name).leaves[k] = events[j].name

\* the value a matcher hands back for the text it matched, by its kind
Value(m, line, pos) ==
    CASE m.t = "MS" -> m.string
      [] m.t = "MRE" -> IF slice(line, pos, 1) = <<NL>> THEN <<NL>> ELSE <<>>
      [] m.t = "mmatch" -> m.what
      [] m.t = "lookahead" -> m.first \o m.second
      [] OTHER -> <<>>

C13_Step ==
    (mode = "pull" /\ pc = "next" /\ iter_next(lexer, parser.current_iter).out = "yield") =>
        LET name == iter_next(lexer, parser.current_iter).name
            told == SelectSeq(Added, LAMBDA e : e.ev = "token_match")
            i == CHOOSE i \in 1..Len(Added) : Added[i].ev = "token_match"
        IN /\ ~Succeeds(name) => told = <<>>
           /\ Succeeds(name) =>
                /\ Len(told) = 1
                /\ told[1].name = name
                /\ lexer[name].matcher.t # "MM" =>
                     told[1].val = Value(lexer[name].matcher, parser.current_line,
                                         parser.current_pos)
                /\ i = 2 /\ Added[1].ev = "attempt" /\ Added[1].name = name
                /\ \A j \in 1..Len(Added) : Added[j].ev = "on_match" => j > i
                /\ lexer[name].on_match # "none" =>
                     (Len(Added) > i /\ Added[i + 1].ev = "on_match")

(* C13: token_match is called exactly once for every leaf that matched,    *)
(* with the leaf's name and the matched value, before the leaf's on_match, *)
(* and never for a leaf that failed; the names it receives are the leaves  *)
(* matched, in order.                                                      *)
C13_TokenMatchOncePerMatch == [][C13_Step]_vars

\* token_match was called for a match, then for a second match after a failed
\* attempt that it was not called for, the second time before on_match
C13_Witness ==
    /\ mode = "pull" /\ lexer = T_groups
    /\ Len(Tokens(events)) = 2
    /\ Tokens(events)[1] = <<"word1", <<"a">>>>
    /\ Tokens(events)[2] = <<"word2", <<"b">>>>
    /\ Last(events).ev = "commit"
    /\ Len(SelectSeq(events, LAMBDA e : e.ev = "fail")) >= 3

(* C14: MM.match leaves the snapshot stack as deep as it found it, when a   *)
(* member succeeded as well as when all failed, and after a failure the    *)
(* cursor is where it was on entry.                                         *)
C14_MMBalanced ==
    (mode = "pull" /\ pc = "next"
     /\ iter_next(lexer, parser.current_iter).out = "yield"
     /\ lexer[iter_next(lexer, parser.current_iter).name].matcher.t = "MM") =>
        LET m == lexer[iter_next(lexer, parser.current_iter).name].matcher
            entry == cache_push(parser)
            r == MM_match(m, entry, entry.current_line, entry.current_pos)
        IN /\ Len(r.P.idx_stack) = Len(entry.idx_stack)
           /\ ~r.ok => Position(r.P) = Position(entry)

\* the largest of the numbers f[i], i in S (0 when S is empty)
Largest(S, f(_)) ==
    IF S = {} THEN 0 ELSE f(CHOOSE i \in S : \A j \in S : f(j) <= f(i))

C15_Step ==
    (mode = "pull" /\ pc = "next"
     /\ iter_next(lexer, parser.current_iter).out = "yield"
     /\ lexer[iter_next(lexer, parser.current_iter).name].matcher.t = "MM") =>
        LET m == lexer[iter_next(lexer, parser.current_iter).name].matcher
            entry == cache_push(parser)
            \* member i alone, tried where the alternation was entered
            R(i) == match(m.args[i], cache_push(entry), entry.current_line,
                          entry.current_pos)
            Read(i) == Len(R(i).P.line_cache)
            oks == {i \in 1..Len(m.args) : R(i).ok}
            told == SelectSeq(Added, LAMBDA e : e.ev = "token_match")
            cached == Len(parser'.line_cache) + (purged' - purged)
        IN IF oks = {}
           THEN /\ told = <<>>
                /\ \E i \in 1..Len(Added) : Added[i].ev = "fail"
                /\ Position(parser') = Position(parser)
                /\ cached = Largest(1..Len(m.args), Read)
           ELSE LET first == CHOOSE i \in oks : \A j \in oks : i <= j
                IN /\ Len(told) = 1
                   /\ told[1].val = R(first).val
                   /\ pc' = "top" => parser'.current_pos = R(first).new_pos
                   /\ parser'.current_lineno = R(first).P.current_lineno
                   /\ cached = Largest(1..first, Read)

(* C15: MM.match tries its members in the order given, each at the line    *)
(* and position it was called with; the first member that succeeds gives   *)
(* the result and no later member is tried (none of them reads a line);    *)
(* the result is no-match exactly when every member fails.                 *)
C15_MMFirstSuccess == [][C15_Step]_vars

\* the third member matched after the second had read a line ahead and failed
C15_Witness ==
    /\ mode = "pull" /\ lexer = T_mm
    /\ Len(events) >= 2
    /\ Last(events).ev = "commit"
    /\ events[Len(events) - 1].ev = "token_match"
    /\ events[Len(events) - 1].val = <<"a">>
    /\ parser.next_lineidx = 0 /\ Len(parser.line_cache) = 1
    /\ parser.current_pos = 1

\* the first member matched and the second, which would have read a line, was
\* not tried
C15_LaterMemberNotTried ==
    /\ mode = "pull" /\ lexer = T_mm_first
    /\ Len(events) >= 2
    /\ Last(events).ev = "commit"
    /\ Commits(events) = 1
    /\ parser.line_cache = <<>>
    /\ parser.source # <<>>

----------------------------------------------------------------------------
(* The line cache                                                          *)

(* C16: N calls of cache_push followed by N calls of cache_pop, with calls *)
(* of readline anywhere in between and no purge, put next_lineidx,         *)
(* current_lineno, current_pos and current_line back to what they were at  *)
(* the first push and the snapshot stack back to its depth before it; the  *)
(* lines read in between are still in the line cache and readline delivers *)
(* them again in the same order.                                           *)
C16_PushPopRestores ==
    mode = "buffer" =>
        /\ mark.pushes >= 1 =>
            Len(parser.idx_stack) = mark.depth + mark.pushes - mark.pops
        /\ (mark.pushes >= 1 /\ mark.pops = mark.pushes) =>
            /\ mark.again = <<>> =>
                /\ parser.next_lineidx = mark.frame.next_lineidx
                /\ parser.current_lineno = mark.frame.current_lineno
                /\ parser.current_pos = mark.frame.current_pos
                /\ parser.current_line = mark.frame.current_line
            /\ Len(parser.line_cache) >= mark.frame.next_lineidx + Len(mark.first)
            /\ \A i \in 1..Len(mark.first) :
                parser.line_cache[mark.frame.next_lineidx + i] = mark.first[i]
            /\ \A i \in 1..Len(mark.again) :
                i <= Len(mark.first) => mark.again[i] = mark.first[i]

\* two snapshots were pushed, two lines read between the calls, both popped,
\* and the two lines delivered again
C16_Witness ==
    /\ mode = "buffer"
    /\ mark.pushes = MaxPushes /\ mark.pops = mark.pushes
    /\ Len(mark.first) = 2
    /\ mark.again = mark.first
    /\ mark.first[1] # mark.first[2]

\* the line number at which the last commit happened, 0 before the first
CommitLine == IF LastCommit(events) = 0 THEN 0 ELSE events[LastCommit(events)].lineno

(* C17: the driver purges exactly once per commit and never for a failed   *)
(* attempt; right after a commit the snapshot stack is empty, next_lineidx *)
(* is 0 and the line cache holds exactly the lines fetched beyond the      *)
(* current one, so that no snapshot, and hence no cache_pop, leads back to *)
(* a line consumed before that commit.                                     *)
C17_PurgeOncePerCommit ==
    mode = "pull" =>
        /\ parser.purges = Commits(events)
        /\ (events # <<>> /\ Last(events).ev = "commit") =>
            /\ parser.idx_stack = <<>>
            /\ parser.next_lineidx = 0
            /\ parser.current_lineno + Len(parser.line_cache) <= Len(Physical)
            /\ \A i \in 1..Len(parser.line_cache) :
                parser.line_cache[i] = Physical[parser.current_lineno + i]
        /\ purged = CommitLine
        /\ parser.current_lineno >= CommitLine
        /\ parser.current_lineno - parser.next_lineidx >= CommitLine
        /\ \A i \in 1..Len(parser.idx_stack) :
            /\ parser.idx_stack[i].current_lineno >= CommitLine
            /\ parser.idx_stack[i].current_lineno - parser.idx_stack[i].next_lineidx
                 >= CommitLine

\* a commit of a match over several lines has trimmed them and left the line
\* read ahead in the cache
C17_Witness ==
    /\ mode = "pull" /\ events # <<>> /\ Last(events).ev = "commit"
    /\ Commits(events) >= 1
    /\ purged >= 2
    /\ parser.line_cache # <<>>
    /\ Len(SelectSeq(events, LAMBDA e : e.ev = "fail")) >= 1

C18_Step ==
    (mode = "pull" /\ pc = "next"
     /\ iter_next(lexer, parser.current_iter).out = "yield"
     /\ ~Succeeds(iter_next(lexer, parser.current_iter).name)) =>
        LET name == iter_next(lexer, parser.current_iter).name
            n == iter_next(lexer, parser'.current_iter)
        IN /\ \E i \in 1..Len(Added) : Added[i].ev = "fail" /\ Added[i].name = name
           /\ parser'.next_lineidx = parser.next_lineidx
           /\ parser'.current_lineno = parser.current_lineno
           /\ parser'.current_pos = parser.current_pos
           /\ parser'.current_line = parser.current_line
           /\ parser'.idx_stack = parser.idx_stack
           /\ IsPrefix(parser.line_cache, parser'.line_cache)
           /\ (pc' = "top" /\ n.out = "yield") =>
                \* the loop head reads nothing, and the next candidate starts here
                /\ LoopTop(World').parser = parser'
                /\ LoopBody(lexer, LoopTop(World'), handler).events[Len(events') + 1]
                     = Ev("attempt", n.name, parser)

(* C18: after a failed attempt next_lineidx, current_lineno, current_pos   *)
(* and current_line are what they were just before it, also when the       *)
(* matcher read further lines before failing, and the snapshot stack is as *)
(* deep as before; the next candidate is attempted at the same line and    *)
(* column.                                                                 *)
C18_FailedAttemptRestores == [][C18_Step]_vars

\* a matcher read a line ahead and failed; the cursor is back on the line it
\* started from, in its second column, and the line read is in the cache
C18_Witness ==
    /\ mode = "pull" /\ pc = "top" /\ events # <<>>
    /\ Last(events).ev = "fail"
    /\ lexer[Last(events).name].matcher.t = "lookahead"
    /\ parser.next_lineidx < Len(parser.line_cache)
    /\ Commits(events) >= 1
    /\ parser.current_pos >= 1

----------------------------------------------------------------------------
(* One arming                                                              *)

\* the attempts of the current arming
Tried == Since(events, "attempt")

(* C19 as stated: within one arming no leaf is attempted more than once at *)
(* the same position.                                                      *)
C19_NoLeafTwice ==
    mode = "pull" =>
        \A i \in 1..Len(Tried) : \A j \in 1..Len(Tried) :
            (i # j /\ Tried[i].lineno = Tried[j].lineno /\ Tried[i].pos = Tried[j].pos) =>
                Tried[i].name # Tried[j].name

(* C19 as amended: within one arming the candidates are attempted one      *)
(* after the other as the decision sequence lists them, none of its        *)
(* entries twice, so a leaf is attempted, and its on_fail fired, as often  *)
(* as the sequence lists it (more than once only when the expanded         *)
(* composites refer to it more than once); the lines consumed before the   *)
(* arming are untouched by the failed attempts.                            *)
C19_SequenceTriedOnce ==
    mode = "pull" =>
        LET seq == Decision(lexer, Armed(lexer, events)).leaves
            fails == Since(events, "fail")
            hooks == Since(events, "on_fail")
        IN /\ Len(Tried) <= Len(seq)
           /\ NamesOf(Tried) = SubSeq(seq, 1, Len(Tried))
           /\ \A n \in DOMAIN lexer :
                /\ Count(NamesOf(Tried), n) <= Count(seq, n)
                /\ Count(NamesOf(fails), n) <= Count(NamesOf(Tried), n)
                /\ Count(NamesOf(hooks), n) <= Count(NamesOf(fails), n)
           /\ \A i \in 1..Len(fails) :
                /\ fails[i].lineno = Tried[i].lineno
                /\ fails[i].pos = Tried[i].pos
                /\ fails[i].line = Tried[i].line
           /\ \A i \in 1..Len(Tried) : Tried[i].lineno >= CommitLine
           /\ purged = CommitLine
           /\ parser.current_lineno - parser.next_lineidx = purged

\* a leaf that a composite lists twice has failed twice at one position, its
\* on_fail fired each time, and the arming has gone on to the next leaf
C19_Witness ==
    /\ mode = "pull"
    /\ Len(Tried) >= 3
    /\ Tried[1].name = Tried[2].name
    /\ Tried[1].pos = Tried[2].pos /\ Tried[1].lineno = Tried[2].lineno
    /\ Tried[3].name # Tried[1].name
    /\ Len(Since(events, "on_fail")) >= 2
    /\ Commits(events) >= 1

RECURSIVE Unexpanded(_, _)
\* the references the composites of S hold, and one for each of them
Unexpanded(lex, S) ==
    IF S = {} THEN 0
    ELSE LET c == CHOOSE c \in S : TRUE
         IN Len(lex[c].kids) + 1 + Unexpanded(lex, S \ {c})

\* what the generator g may still have to look at: the names left in the
\* iterators it holds, and the children of the composites not yet expanded
Measure(lex, g) ==
    LET comps == {c \in DOMAIN lex \ {"_begin"} : lex[c].kind = "comp" /\ c \notin g.visited}
        Held[i \in 0..Len(g.stack)] ==
            IF i = 0 THEN 0 ELSE Held[i - 1] + Len(g.stack[i].token_iter)
    IN Unexpanded(lex, comps) + Len(g.token_iter) + Held[Len(g.stack)]

C20_Step ==
    /\ pc = "drained" => FALSE
    /\ mode \in {"iter", "pull"} =>
        /\ Measure(lexer, parser.current_iter) >= 0
        /\ Len(parser.current_iter.iter_calls) <=
             Cardinality({c \in DOMAIN lexer \ {"_begin"} : lexer[c].kind = "comp"})
        /\ Len(Yielded) + Measure(lexer, parser.current_iter) <=
             Measure(lexer, iter_tokens(Armed(lexer, events)))
    /\ (mode = "iter" /\ pc = "iter") =>
        /\ pc' = "iter" =>
             Measure(lexer, parser'.current_iter) < Measure(lexer, parser.current_iter)
        /\ pc' = "drained" =>
             /\ parser'.current_iter.done
             /\ err' = NoError \/ err'.id \in Structural
             /\ Last(events').ev \in {"stop", "raise"}
    /\ (mode = "pull" /\ pc = "next" /\ pc' = "top" /\ Commits(events') = Commits(events)) =>
        Measure(lexer, parser'.current_iter) < Measure(lexer, parser.current_iter)

(* C20: on every table, cyclic or with shared composites, iter_tokens      *)
(* terminates: every next() that yields a leaf leaves the generator        *)
(* strictly less to look at (a natural number that cannot fall for ever),  *)
(* no composite is expanded more often than the table has composites, the  *)
(* leaves yielded never outnumber what the table holds, and the generator  *)
(* ends or raises a LexerError, after which nothing more is produced.      *)
C20_ExpansionTerminates == [][C20_Step]_vars

\* the expansion of a table with a cycle has ended, with E_LOOP, after it
\* yielded leaves and passed over a composite it had expanded before
C20_Witness ==
    /\ mode = "iter" /\ pc = "drained" /\ err.id = E_LOOP
    /\ Len(Yielded) >= 2
    /\ \E c \in parser.current_iter.visited : References(lexer, parser.current_iter, c) >= 2

----------------------------------------------------------------------------
(* The whole parse                                                         *)

(* C21: when run_parser returns without raising (under the default         *)
(* handler), every line of every block of the input has been delivered as  *)
(* the current line and consumed to its end: nothing is left unread in the *)
(* line cache or in the source.                                            *)
C21_AllLinesConsumed ==
    (mode = "pull" /\ pc = "returned" /\ handler = "default") =>
        /\ parser.source = <<>>
        /\ parser.next_lineidx = Len(parser.line_cache)
        /\ parser.current_lineno = Len(Lines(input))
        /\ parser.current_pos >= Len(parser.current_line)

\* the commits seen so far
CommitEvents == SelectSeq(events, LAMBDA e : e.ev = "commit")

(* C22: run_parser terminates on every finite input and table, also when a *)
(* leaf matches without consuming a character and its `after` leads back   *)
(* to a state in which it is a candidate.  The loop is deterministic, so a *)
(* parse that terminates never commits twice into the same state at the    *)
(* same line and column.                                                   *)
C22_NoCommitRepeats ==
    mode = "pull" =>
        \A i \in 1..Len(CommitEvents) : \A j \in 1..Len(CommitEvents) :
            (i < j /\ CommitEvents[i].name = CommitEvents[j].name) =>
                \/ CommitEvents[i].lineno < CommitEvents[j].lineno
                \/ /\ CommitEvents[i].lineno = CommitEvents[j].lineno
                   /\ CommitEvents[i].pos < CommitEvents[j].pos

C23_Step ==
    mode = "pull" =>
        LET armed == Armed(lexer, events)
            d == Decision(lexer, armed)
            n == iter_next(lexer, parser.current_iter)
        IN \* constructing the Parser raises nothing, whatever the table lacks
           /\ events = <<>> => (pc = "top" /\ err = NoError)
           \* a defect is reported by the step that reaches it, where input is left
           /\ (pc' = "raised" /\ err'.id \in Structural) =>
                /\ pc = "next"
                /\ err' = d.error
                /\ Len(Yielded) = Len(d.leaves)
                /\ \A i \in 1..Len(d.leaves) : ~Succeeds(d.leaves[i])
                /\ parser.current_pos < Len(parser.current_line)
           \* a leaf that matches before the defect is committed, the defect unreported
           /\ (pc = "next" /\ n.out = "yield" /\ Succeeds(n.name)
               /\ lexer[n.name].on_match # "raise") =>
                /\ Commits(events') = Commits(events) + 1
                /\ pc' = "top" /\ err' = NoError
           \* a state that is not in the table is looked up only if input is left
           /\ (pc = "top" /\ Commits(events) < MaxCommits /\ armed \notin DOMAIN lexer) =>
                /\ pc' \in {"returned", "next"}
                /\ err' = NoError
                /\ pc' = "returned" <=>
                     /\ parser.current_pos >= Len(parser.current_line)
                     /\ readline(parser).line = <<>>
           /\ (pc = "next" /\ armed \notin DOMAIN lexer) =>
                /\ pc' = "raised"
                /\ err' = LexerError(E_TOKEN_NOT_FOUND, armed)
                /\ parser.current_pos < Len(parser.current_line)

(* C23: defects of the table are found only where the expansion reaches    *)
(* them: constructing a Parser raises nothing when the start token is      *)
(* missing; a defective node behind a matching leaf of the decision        *)
(* sequence is not reported in that step; and after a commit whose `after` *)
(* names no token of the table E_TOKEN_NOT_FOUND is raised only if a       *)
(* character or a line is left to lex, the parse ending normally if not.   *)
C23_DefectsFoundLazily == [][C23_Step]_vars

\* a leaf matched ahead of a defective node, which went unreported; its `after`
\* names no token, and with a character left E_TOKEN_NOT_FOUND was raised
C23_Witness ==
    /\ mode = "pull" /\ pc = "raised" /\ err.id = E_TOKEN_NOT_FOUND
    /\ Commits(events) = 1
    /\ err.name = Armed(lexer, events)
    /\ Decision(lexer, lexer["_begin"]).error.id \in Structural
    /\ Decision(lexer, lexer["_begin"]).error.name # err.name
    /\ parser.current_pos >= 1

\* the start token is missing and the parse of no input has ended normally
C23_MissingStartUnnoticed ==
    /\ mode = "pull" /\ pc = "returned" /\ err = NoError
    /\ lexer["_begin"] \notin DOMAIN lexer

====
